---- MODULE Spec2Model ----
(***************************************************************************)
(* The paginated fetch engine of BinanceOIHistory                          *)
(* (src/1获取U本位合约数据binance.py): _get_batched_data and               *)
(* _get_batched_funding_rate, one loop iteration per action.               *)
(*                                                                         *)
(* Time is counted in milliseconds, the resolution of the loop's           *)
(* "+ timedelta(milliseconds=1)"; instants are small integers and    *)
(* time_delta (the entry of period_map, or 300 days) is an input drawn     *)
(* from 1..MaxStep.                                                        *)
(***************************************************************************)
EXTENDS Integers, Sequences, FiniteSets, TLC

\* ---- bounds of the model ----
MaxT == 1        \* the instants an adapter can report are 0..MaxT
MaxStart == 1    \* start_date ranges over 0..MaxStart
MaxEnd == 6      \* end_date ranges over 0..MaxEnd
MaxStep == 2     \* time_delta ranges over 1..MaxStep
PageLens == 1..2 \* the lengths of a non-empty page

\* ---- program constants ----
max_consecutive_failures == 3

Instants == 0..MaxT
NoneT == -1

\* The timestamp columns an adapter can hand back as a non-empty DataFrame:
\* any instants in any order (the engine does not check them).
Pages == UNION {[1..n -> Instants] : n \in PageLens}

\* What an adapter call returns: None, or a DataFrame given by its timestamp
\* column (empty, or a page).
None == [kind |-> "None", timestamps |-> <<>>]
Frame(page) == [kind |-> "DataFrame", timestamps |-> page]
Answers == {None, Frame(<<>>)} \cup {Frame(page) : page \in Pages}

\* What the engine returns: None, or the merged rows.
NoResult == [kind |-> "None", rows |-> <<>>]
Unset == [kind |-> "unset", rows |-> <<>>]

VARIABLES
    start_date,            \* argument start_date
    end_date,              \* argument end_date
    time_delta,            \* time_delta
    period,                \* period, "" when time_delta is given as it is
    current_start,         \* current_start (the cursor)
    last_timestamp,        \* last_timestamp, NoneT for None
    consecutive_failures,  \* consecutive_failures
    all_data,              \* all_data: the accepted pages, in order
    batch_num,             \* batch_num: adapter calls made so far
    df,                    \* df: what the latest call returned
    calls,                 \* log of the calls: the window, and whether the
                           \* answer was a "page" or "nothing" (line 486)
    pc,                    \* "loop", or "done" once the function has returned
    reason,                \* why the loop was left, "" while it runs
    result,                \* what the function returned, Unset before it
    sleeps,                \* how often the fetch has run time.sleep(2)
    source,                \* the instants at which the upstream holds a record
    inclusive,             \* whether the upstream takes endTime as inclusive
    limit,                 \* the page limit passed to the adapter
    phase,                 \* which fetch of a sequence of fetches is running
    whole,                 \* the result of the fetch of the whole range
    first_half,            \* the result of the fetch of its first half
    clean,                 \* the fetches so far saw data at every call
    remerged,              \* the merge step applied to its own output
    payload,               \* what the transport yields to the calls of each
                           \* series, <<>> when the adapter is not modelled
    series,                \* the place of the series being fetched, 0 outside
                           \* get_all_comprehensive_data
    data_dict,             \* the results of the series fetched so far, by name
    main_pc,               \* where main() is, "" when it is not modelled
    funding,               \* the local variables of _get_batched_funding_rate
                           \* run beside the fetch, <<>> when it is not
    transport              \* where _make_request is and what it has done,
                           \* <<>> when the adapter is a black box

\* the engine's own state
engine == <<current_start, last_timestamp, consecutive_failures, all_data,
            batch_num, df, calls, pc, reason, result, sleeps>>
\* the arguments of a fetch
request == <<start_date, end_date, time_delta, period>>
\* the upstream, and the bookkeeping of the scenarios that run several fetches
upstream == <<source, inclusive, limit, payload>>
\* get_all_comprehensive_data and main()
aggregate == <<series, data_dict, main_pc>>
scenario ==
    <<phase, whole, first_half, clean, remerged, aggregate, funding, transport>>

vars == <<request, engine, upstream, scenario>>

Min(a, b) == IF a <= b THEN a ELSE b

\* ---- pandas helpers ----

\* The rows of one DataFrame: the timestamp column plus the identity of the
\* row (b, the place of its page in all_data, and its position in the page),
\* standing for the row's other columns.
Rows(page, b) ==
    [i \in 1..Len(page) |-> [timestamp |-> page[i], row |-> <<b, i>>]]

\* df['timestamp'].iloc[-1]
LastTimestamp(page) == page[Len(page)]

RECURSIVE Concat(_)
\* pd.concat(all_data, ignore_index=True)
Concat(frames) ==
    IF frames = <<>> THEN <<>> ELSE Head(frames) \o Concat(Tail(frames))

\* drop_duplicates left out: every row is kept.
KeepDuplicates(rows) == rows

\* drop_duplicates(keep=False): a timestamp that occurs twice loses all its
\* rows.
DropAllDuplicated(rows) ==
    SelectSeq(rows, LAMBDA r :
        Cardinality({i \in 1..Len(rows) : rows[i].timestamp = r.timestamp}) = 1)

RECURSIVE DropAdjacentDuplicates(_)
\* Only a row that repeats the timestamp of the row right before it is
\* dropped (a dedup that takes its input for sorted).
DropAdjacentDuplicates(rows) ==
    IF Len(rows) <= 1 THEN rows
    ELSE LET init == DropAdjacentDuplicates(SubSeq(rows, 1, Len(rows) - 1))
             last == rows[Len(rows)]
         IN  IF rows[Len(rows) - 1].timestamp = last.timestamp
             THEN init
             ELSE Append(init, last)

RECURSIVE DropDuplicatesKeepLast(_)
\* drop_duplicates(keep='last'): the last row of a timestamp is kept, at its
\* place.
DropDuplicatesKeepLast(rows) ==
    IF rows = <<>> THEN <<>>
    ELSE LET first == Head(rows)
             rest == DropDuplicatesKeepLast(Tail(rows))
         IN  IF \E i \in 2..Len(rows) : rows[i].timestamp = first.timestamp
             THEN rest
             ELSE <<first>> \o rest

RECURSIVE DropDuplicates(_)
\* result.drop_duplicates(subset=['timestamp']): keeps the first occurrence
DropDuplicates(rows) ==
    IF rows = <<>> THEN <<>>
    ELSE LET init == DropDuplicates(SubSeq(rows, 1, Len(rows) - 1))
             last == rows[Len(rows)]
         IN  IF \E i \in 1..Len(init) : init[i].timestamp = last.timestamp
             THEN init
             ELSE Append(init, last)

\* result.sort_values('timestamp').reset_index(drop=True)
SortValues(rows) == SortSeq(rows, LAMBDA a, b : a.timestamp < b.timestamp)

\* lines 522-525: concat, drop_duplicates, sort_values
Merge(frames) == SortValues(DropDuplicates(Concat(frames)))

\* ---- the engine ----

\* Lines 451-453, 469-471: the state at the head of the first iteration.
EngineInit ==
    /\ current_start = start_date
    /\ last_timestamp = NoneT
    /\ consecutive_failures = 0
    /\ all_data = <<>>
    /\ batch_num = 0
    /\ df = None
    /\ calls = <<>>
    /\ pc = "loop"
    /\ reason = ""
    /\ result = Unset
    /\ sleeps = 0

\* No scenario: one fetch.
ScenarioInit ==
    /\ phase = "single"
    /\ whole = Unset
    /\ first_half = Unset
    /\ clean = TRUE
    /\ remerged = Unset
    /\ funding = <<>> /\ transport = <<>>

\* The fetch is called on its own, with the adapter as a black box.
NoAggregate ==
    /\ payload = <<>>
    /\ series = 0
    /\ data_dict = <<>>
    /\ main_pc = ""

\* One fetch against an adapter that may answer anything.
Init ==
    /\ start_date \in 0..MaxStart
    /\ end_date \in 0..MaxEnd
    /\ time_delta \in 1..MaxStep
    /\ period = ""
    /\ EngineInit
    /\ source = {}
    /\ inclusive = TRUE
    /\ limit = 1
    /\ ScenarioInit
    /\ NoAggregate

\* line 475: current_end = min(current_start + time_delta, end_date)
CurrentEnd == Min(current_start + time_delta, end_date)

\* line 486: df is not None and len(df) > 0
HasData(answer) == answer.kind = "DataFrame" /\ Len(answer.timestamps) > 0

\* The stall check left out.
StalledNever(page) == FALSE

\* The stall check with < for <=: a page that repeats the previous last
\* timestamp is taken for progress.
StalledStrict(page) ==
    last_timestamp # NoneT /\ LastTimestamp(page) < last_timestamp

\* The stall check without "last_timestamp is not None": the first page
\* counts as a stall.
StalledFirst(page) ==
    last_timestamp = NoneT \/ LastTimestamp(page) <= last_timestamp

\* line 491: the page does not advance past the previous one
Stalled(page) ==
    last_timestamp # NoneT /\ LastTimestamp(page) <= last_timestamp

\* The cursor moves 2 ms past the page.
AfterPageSkip(current_last_timestamp) == current_last_timestamp + 2

\* line 500: the cursor after an accepted page
AfterPage(current_last_timestamp) == current_last_timestamp + 1

\* line 504: the page reaches the end of the request
ReachedEnd(current_last_timestamp) == current_last_timestamp >= end_date

\* The loop gives up one failure later.
TooManyFailuresLate(failures) == failures >= max_consecutive_failures + 1

\* line 512: the bound on consecutive calls without data
TooManyFailures(failures) == failures >= max_consecutive_failures

\* The accepted page leaves the count of failures as it is.
FailuresKept(failures) == failures

\* line 501: the count of failures after an accepted page
FailuresAfterPage(failures) == 0

\* The failed window is requested again.
AfterFailureRetry(window_end) == current_start

\* The cursor moves to the end of the failed window, without the 1 ms.
AfterFailureNoGap(window_end) == window_end

\* line 517: the cursor after a call without data
AfterFailure(window_end) == window_end + 1

\* Lines 522-531: what the function returns for the accumulated pages.
Returned(frames) ==
    IF frames # <<>>
    THEN [kind |-> "DataFrame", rows |-> Merge(frames)]
    ELSE NoResult

\* The loop is left for reason r with the pages frames accumulated; the
\* function merges them and returns (lines 522-531).
Stop(r, frames) ==
    /\ pc' = "done"
    /\ reason' = r
    /\ result' = Returned(frames)
    /\ sleeps' = sleeps

\* The iteration ends without the sleep.
NoSleep(n) == n

\* line 520: time.sleep(2), once more
SleepsAfter(n) == n + 1

\* The loop sleeps and goes on to its next iteration (line 520, back to
\* line 473).
Continue ==
    /\ pc' = "loop"
    /\ sleeps' = SleepsAfter(sleeps)
    /\ UNCHANGED <<reason, result>>

\* Lines 474-484: one adapter call for the window at the cursor, answered
\* by answer.
Call(answer) ==
    /\ batch_num' = batch_num + 1
    /\ df' = answer
    /\ calls' = Append(calls, [start_time |-> current_start,
                               end_time |-> CurrentEnd,
                               kind |-> IF HasData(answer) THEN "page"
                                        ELSE "nothing"])

\* One iteration whose call returned a non-empty DataFrame (lines 473-506).
FetchPage(answer) ==
    /\ pc = "loop"
    /\ current_start < end_date
    /\ HasData(answer)
    /\ Call(answer)
    /\ LET page == answer.timestamps
       IN  IF Stalled(page)
           THEN /\ Stop("stalled", all_data)
                /\ UNCHANGED <<all_data, last_timestamp, current_start,
                               consecutive_failures>>
           ELSE /\ all_data' = Append(all_data, Rows(page, Len(all_data) + 1))
                /\ last_timestamp' = LastTimestamp(page)
                /\ current_start' = AfterPage(LastTimestamp(page))
                /\ consecutive_failures' =
                       FailuresAfterPage(consecutive_failures)
                /\ IF ReachedEnd(LastTimestamp(page))
                   THEN Stop("reached_end", all_data')
                   ELSE Continue
    /\ UNCHANGED <<request, upstream, scenario>>

\* One iteration whose call returned None or an empty DataFrame
\* (lines 473-484, 508-520).
FetchNothing(answer) ==
    /\ pc = "loop"
    /\ current_start < end_date
    /\ ~HasData(answer)
    /\ Call(answer)
    /\ consecutive_failures' = consecutive_failures + 1
    /\ IF TooManyFailures(consecutive_failures + 1)
       THEN /\ Stop("max_failures", all_data)
            /\ UNCHANGED current_start
       ELSE /\ Continue
            /\ current_start' = AfterFailure(CurrentEnd)
    /\ UNCHANGED <<last_timestamp, all_data>>
    /\ UNCHANGED <<request, upstream, scenario>>

\* The while condition is false (line 473): the loop ends.
LoopExit ==
    /\ pc = "loop"
    /\ ~(current_start < end_date)
    /\ Stop("reached_end", all_data)
    /\ UNCHANGED <<current_start, last_timestamp, consecutive_failures,
                   all_data, batch_num, df, calls>>
    /\ UNCHANGED <<request, upstream, scenario>>

Next ==
    \/ \E answer \in Answers : FetchPage(answer)
    \/ \E answer \in Answers : FetchNothing(answer)
    \/ LoopExit

Spec == Init /\ [][Next]_vars

\* ---- the merge step alone ----

MaxFrames == 3   \* at most MaxFrames pages are merged

\* Any pages at all, not only such as one fetch accumulates.
MergeInit ==
    /\ start_date = 0 /\ end_date = 0 /\ time_delta = 1
    /\ period = ""
    /\ current_start = 0 /\ last_timestamp = NoneT
    /\ consecutive_failures = 0 /\ batch_num = 0 /\ df = None
    /\ calls = <<>> /\ pc = "loop" /\ reason = "" /\ result = Unset
    /\ sleeps = 0
    /\ \E n \in 1..MaxFrames : \E pages \in [1..n -> Pages] :
           all_data = [k \in 1..n |-> Rows(pages[k], k)]
    /\ source = {} /\ inclusive = TRUE /\ limit = 1
    /\ phase = "merge" /\ whole = Unset /\ first_half = Unset
    /\ clean = TRUE /\ remerged = Unset /\ funding = <<>> /\ transport = <<>>
    /\ NoAggregate

\* Lines 522-528 on the pages.
MergePages ==
    /\ phase = "merge"
    /\ result' = Returned(all_data)
    /\ phase' = "merged"
    /\ UNCHANGED <<request, upstream, whole, first_half, clean, remerged,
                   funding, transport, aggregate>>
    /\ UNCHANGED <<current_start, last_timestamp, consecutive_failures,
                   all_data, batch_num, df, calls, pc, reason, sleeps>>

\* Lines 522-528 again, on the DataFrame they returned.
MergeAgain ==
    /\ phase = "merged"
    /\ remerged' = Returned(<<result.rows>>)
    /\ phase' = "remerged"
    /\ UNCHANGED <<request, upstream, engine, whole, first_half, clean,
                   aggregate, funding, transport>>

MergeNext == MergePages \/ MergeAgain

MergeSpec == MergeInit /\ [][MergeNext]_vars

\* ---- a fetch against an upstream that answers from its records ----

MaxLimit == 2    \* limit ranges over 1..MaxLimit

\* Long enough for three empty windows to lie before the last instant.
CoverEnd == MaxEnd + 1

RECURSIVE Ascending(_)
\* The instants of S, earliest first.
Ascending(S) ==
    IF S = {} THEN <<>>
    ELSE LET m == CHOOSE x \in S : \A y \in S : x <= y
         IN  <<m>> \o Ascending(S \ {m})

TakeFirst(seq, n) == SubSeq(seq, 1, Min(n, Len(seq)))

\* The upstream's records in the window that startTime and endTime delimit;
\* endTime itself belongs to it when the upstream takes it as inclusive.
InWindow(start_time, end_time) ==
    {t \in source : /\ start_time <= t
                    /\ t < end_time \/ (inclusive /\ t = end_time)}

\* The adapter call for the window at the cursor, answered from the
\* upstream's records: the earliest limit of them, and None when the payload
\* is empty (lines 125-139).
SourceAnswer ==
    LET page == TakeFirst(Ascending(InWindow(current_start, CurrentEnd)),
                          limit)
    IN  IF page = <<>> THEN None ELSE Frame(page)

CoverInit ==
    /\ start_date \in 0..MaxStart
    /\ end_date \in 0..CoverEnd
    /\ time_delta \in 1..MaxStep
    /\ period = ""
    /\ EngineInit
    /\ source \in SUBSET (0..CoverEnd)
    /\ inclusive \in BOOLEAN
    /\ limit \in 1..MaxLimit
    /\ ScenarioInit
    /\ NoAggregate

SourceFetchPage == FetchPage(SourceAnswer)

SourceFetchNothing == FetchNothing(SourceAnswer)

CoverNext == SourceFetchPage \/ SourceFetchNothing \/ LoopExit

CoverSpec == CoverInit /\ [][CoverNext]_vars

\* ---- one fetch of a range, then a fetch of each of its halves ----

HoleCounts == 0..2   \* how many instants of the range hold no record
SplitSteps == 1..2   \* the values of time_delta, a tenth of the range

\* The range is [T0, T0 + 10 * time_delta); the upstream holds a record at
\* every instant of T0 .. T0 + 10 * time_delta but for a few.
SplitInit ==
    /\ start_date \in 0..MaxStart
    /\ time_delta \in SplitSteps
    /\ period = ""
    /\ end_date = start_date + 10 * time_delta
    /\ EngineInit
    /\ \E holes \in SUBSET (start_date..end_date) :
           /\ Cardinality(holes) \in HoleCounts
           /\ source = (start_date..end_date) \ holes
    /\ inclusive \in BOOLEAN
    /\ limit \in 1..MaxLimit
    /\ phase = "whole"
    /\ whole = Unset
    /\ first_half = Unset
    /\ clean = TRUE
    /\ remerged = Unset
    /\ funding = <<>> /\ transport = <<>>
    /\ NoAggregate

\* The fetch that just returned met no failure and no stall.
RunClean ==
    /\ reason = "reached_end"
    /\ \A n \in 1..Len(calls) : calls[n].kind = "page"

\* The state at the head of the first iteration of a new call of the
\* function, for the range [from, to).
Enter(from, to) ==
    /\ start_date' = from
    /\ end_date' = to
    /\ current_start' = from
    /\ last_timestamp' = NoneT
    /\ consecutive_failures' = 0
    /\ all_data' = <<>>
    /\ batch_num' = 0
    /\ df' = None
    /\ calls' = <<>>
    /\ pc' = "loop"
    /\ reason' = ""
    /\ result' = Unset
    /\ sleeps' = 0

\* The fetch of the whole range has returned: the first half is fetched.
FetchFirstHalf ==
    /\ phase = "whole" /\ pc = "done"
    /\ whole' = result
    /\ clean' = RunClean
    /\ phase' = "first_half"
    /\ Enter(start_date, start_date + 5 * time_delta)
    /\ UNCHANGED <<time_delta, period, upstream, first_half, remerged,
                   funding, transport, aggregate>>

\* The fetch of the first half has returned: the second half is fetched.
FetchSecondHalf ==
    /\ phase = "first_half" /\ pc = "done"
    /\ first_half' = result
    /\ phase' = "second_half"
    /\ Enter(end_date, end_date + 5 * time_delta)
    /\ UNCHANGED <<time_delta, period, upstream, whole, clean, remerged,
                   funding, transport, aggregate>>

SplitNext ==
    \/ SourceFetchPage
    \/ SourceFetchNothing
    \/ LoopExit
    \/ FetchFirstHalf
    \/ FetchSecondHalf

SplitSpec == SplitInit /\ [][SplitNext]_vars

\* ---- a fetch against a stub that answers one record per call ----

MaxDay == 6      \* the step of the stub's request ranges over 1..MaxDay

\* The request covers three steps.
StubInit ==
    /\ start_date \in 0..MaxStart
    /\ time_delta \in 1..MaxDay
    /\ period = ""
    /\ end_date = start_date + 3 * time_delta
    /\ EngineInit
    /\ source = {}
    /\ inclusive = TRUE
    /\ limit = 1
    /\ ScenarioInit
    /\ NoAggregate

\* One record, timestamped at the start of the requested window (the
\* start_time argument of line 481).
StubAnswer == Frame(<<current_start>>)

StubFetchPage == FetchPage(StubAnswer)

StubNext == StubFetchPage \/ LoopExit

StubSpec == StubInit /\ [][StubNext]_vars

\* ---- the endpoint adapters, get_all_comprehensive_data and main() ----

AggEnd == 2      \* the range that get_all_comprehensive_data is asked for

\* The keys of the dict that get_all_comprehensive_data returns, in the
\* order in which it fetches them (lines 636-700).
SeriesNames ==
    <<"open_interest", "top_account_ratio", "top_position_ratio",
      "global_ratio", "basis", "klines", "funding_rate">>

\* What _make_request can hand to an adapter:
\*   "failed"      None, after the last attempt failed (lines 79, 89, 99, 101)
\*   "empty"       an empty list
\*   "not_list"    a JSON object, such as {"code": ..., "msg": ...}
\*   "wrong_shape" a list whose records lack the columns the adapter reads
\*   "bad_field"   records with a value that astype(float) or to_datetime
\*                 cannot convert
\*   "records"     records of the expected shape
Payloads ==
    {"failed", "empty", "not_list", "wrong_shape", "bad_field", "records"}

\* The payloads that get_all_comprehensive_data is run against.
AggPayloads == {"failed", "bad_field", "records"}

\* The adapter raises instead of returning (pd.DataFrame, the column lookup
\* or astype raise, and no adapter has a try).
Raises == [kind |-> "raise", timestamps |-> <<>>]

\* The adapters that check isinstance(data, list): get_basis_data (line 320),
\* get_funding_rate (line 368) and get_klines (line 416).
ListChecked(name) == name \in {"basis", "funding_rate", "klines"}

\* What the adapter of the series name makes of the payload p for the window
\* at the cursor; records of the expected shape are one record at the start
\* of the window.
AdapterAnswer(name, p) ==
    IF p \in {"failed", "empty"} THEN None
    ELSE IF p = "not_list" /\ ListChecked(name) THEN None
    ELSE IF p \in {"not_list", "wrong_shape", "bad_field"} THEN Raises
    ELSE Frame(<<current_start>>)

\* The answer to the call of the current iteration.
Answer == AdapterAnswer(SeriesNames[series], payload[series])

AdapterFetchPage == Answer # Raises /\ FetchPage(Answer)

AdapterFetchNothing == Answer # Raises /\ FetchNothing(Answer)

\* The adapter raises: the exception leaves the loop (no try around line
\* 479), get_all_comprehensive_data (no try around lines 638-686) and main(),
\* and is caught at line 946.
AdapterRaises ==
    /\ pc = "loop"
    /\ current_start < end_date
    /\ Answer = Raises
    /\ batch_num' = batch_num + 1
    /\ df' = Raises
    /\ calls' = Append(calls, [start_time |-> current_start,
                               end_time |-> CurrentEnd,
                               kind |-> "raise"])
    /\ pc' = "raised"
    /\ main_pc' = IF main_pc = "fetching" THEN "crashed" ELSE main_pc
    /\ UNCHANGED <<current_start, last_timestamp, consecutive_failures,
                   all_data, reason, result, sleeps>>
    /\ UNCHANGED <<request, upstream, phase, whole, first_half, clean,
                   remerged, funding, transport, series, data_dict>>

\* One fetch of one series, every call of which gets the same payload.
AdapterInit ==
    /\ start_date \in 0..MaxStart
    /\ end_date = start_date + AggEnd
    /\ time_delta \in 1..MaxStep
    /\ period = ""
    /\ EngineInit
    /\ source = {}
    /\ inclusive = TRUE
    /\ limit = 1
    /\ ScenarioInit
    /\ series \in 1..Len(SeriesNames)
    /\ \E p \in Payloads : payload = [k \in 1..Len(SeriesNames) |-> p]
    /\ data_dict = <<>>
    /\ main_pc = ""

AdapterNext ==
    \/ AdapterFetchPage
    \/ AdapterFetchNothing
    \/ AdapterRaises
    \/ LoopExit

AdapterSpec == AdapterInit /\ [][AdapterNext]_vars

\* main() calls get_all_comprehensive_data (line 907), which starts with the
\* first series (line 638); the calls of one series all get the same
\* payload.
AggInit ==
    /\ start_date = 0
    /\ end_date = AggEnd
    /\ time_delta = 1
    /\ period = ""
    /\ EngineInit
    /\ source = {}
    /\ inclusive = TRUE
    /\ limit = 1
    /\ ScenarioInit
    /\ series = 1
    /\ payload \in [1..Len(SeriesNames) -> AggPayloads]
    /\ data_dict = <<>>
    /\ main_pc = "fetching"

\* The fetch of the current series has begun.
FetchStarted == batch_num >= 1

\* The fetch of the current series has returned a DataFrame: a series
\* without data stops get_all_comprehensive_data.
FetchDoneWithData == pc = "done" /\ result # NoResult

\* The fetch of the current series has returned (line 528 or 531).
FetchDone == pc = "done"

\* The dict d with the value r under the key name.
With(d, name, r) ==
    [n \in DOMAIN d \cup {name} |-> IF n = name THEN r ELSE d[n]]

\* The fetch of a series has returned and the fetch of the next one is
\* called with the same range (lines 638-686).
NextSeries ==
    /\ main_pc = "fetching"
    /\ series < Len(SeriesNames)
    /\ FetchDone
    /\ data_dict' = With(data_dict, SeriesNames[series], result)
    /\ series' = series + 1
    /\ Enter(start_date, end_date)
    /\ UNCHANGED <<time_delta, period, upstream, phase, whole, first_half,
                   clean, remerged, funding, transport, main_pc>>

\* The fetch of the last series has returned: the dict is returned to
\* main() (lines 692-700).
ReturnAll ==
    /\ main_pc = "fetching"
    /\ series = Len(SeriesNames)
    /\ FetchDone
    /\ data_dict' = With(data_dict, SeriesNames[series], result)
    /\ main_pc' = "returned"
    /\ UNCHANGED <<request, engine, upstream, phase, whole, first_half, clean,
                   remerged, funding, transport, series>>

\* Every series of the dict must be there.
HasDataAll(d) == \A key \in DOMAIN d : d[key] # NoResult

\* line 914: any(data_dict.get(key) is not None for key in data_dict.keys())
has_data(d) == \E key \in DOMAIN d : d[key] # NoResult

\* Lines 756-858: merged_df is not None once a series of the seven is there.
merged_df(d) ==
    \E i \in 1..Len(SeriesNames) :
        SeriesNames[i] \in DOMAIN d /\ d[SeriesNames[i]] # NoResult

\* Lines 916-935: main() calls export_to_excel, which writes the file when
\* merged_df is not None (lines 858-873).
Export ==
    /\ main_pc = "returned"
    /\ has_data(data_dict)
    /\ main_pc' = IF merged_df(data_dict) THEN "exported" ELSE "no_file"
    /\ UNCHANGED <<request, engine, upstream, phase, whole, first_half, clean,
                   remerged, funding, transport, series, data_dict>>

\* Lines 936-937: nothing to export.
Refuse ==
    /\ main_pc = "returned"
    /\ ~has_data(data_dict)
    /\ main_pc' = "refused"
    /\ UNCHANGED <<request, engine, upstream, phase, whole, first_half, clean,
                   remerged, funding, transport, series, data_dict>>

AggNext ==
    \/ AdapterFetchPage
    \/ AdapterFetchNothing
    \/ AdapterRaises
    \/ LoopExit
    \/ NextSeries
    \/ ReturnAll
    \/ Export
    \/ Refuse

AggSpec == AggInit /\ [][AggNext]_vars

\* ---- _get_batched_funding_rate beside _get_batched_data ----

\* Lines 544-553: the local variables of _get_batched_funding_rate before
\* its loop; time_delta is the request's, timedelta(days=300) for both.
FundingStart ==
    [all_data |-> <<>>, current_start |-> start_date,
     last_timestamp |-> NoneT, batch_num |-> 0, consecutive_failures |-> 0,
     calls |-> <<>>, pc |-> "loop", reason |-> "", result |-> Unset]

\* line 557: current_end = min(current_start + time_delta, end_date)
FundingCurrentEnd(f) == Min(f.current_start + time_delta, end_date)

\* line 567: df is not None and len(df) > 0
FundingHasData(answer) ==
    answer.kind = "DataFrame" /\ Len(answer.timestamps) > 0

\* line 570: the page does not advance past the previous one
FundingStalled(f, page) ==
    f.last_timestamp # NoneT /\ LastTimestamp(page) <= f.last_timestamp

\* line 578: the cursor after an accepted page
FundingAfterPage(current_last_timestamp) == current_last_timestamp + 1

\* line 581: the page reaches the end of the request
FundingReachedEnd(current_last_timestamp) ==
    current_last_timestamp >= end_date

\* line 589: the bound on consecutive calls without data
FundingTooManyFailures(failures) == failures >= max_consecutive_failures

\* line 593: the cursor after a call without data
FundingAfterFailure(window_end) == window_end + 1

\* Lines 597-606: what the function returns for the accumulated pages.
FundingReturned(frames) ==
    IF frames # <<>>
    THEN [kind |-> "DataFrame",
          rows |-> SortValues(DropDuplicates(Concat(frames)))]
    ELSE NoResult

\* The loop is left for reason r and the function returns (lines 597-606).
FundingStop(f, r) ==
    [f EXCEPT !.pc = "done", !.reason = r,
              !.result = FundingReturned(f.all_data)]

\* Lines 556-565: one call of get_funding_rate for the window at the cursor.
FundingCall(f) ==
    [f EXCEPT !.batch_num = @ + 1,
              !.calls = Append(@, [start_time |-> f.current_start,
                                   end_time |-> FundingCurrentEnd(f)])]

\* Lines 567-582: the call returned a non-empty DataFrame.
FundingPage(f, page) ==
    IF FundingStalled(f, page)
    THEN FundingStop(FundingCall(f), "stalled")
    ELSE LET accepted ==
                 [FundingCall(f) EXCEPT
                     !.all_data = Append(@, Rows(page, Len(@) + 1)),
                     !.last_timestamp = LastTimestamp(page),
                     !.current_start = FundingAfterPage(LastTimestamp(page)),
                     !.consecutive_failures = 0]
         IN  IF FundingReachedEnd(LastTimestamp(page))
             THEN FundingStop(accepted, "reached_end")
             ELSE accepted

\* Lines 584-593: the call returned None or an empty DataFrame.
FundingNothing(f) ==
    LET failed == [FundingCall(f) EXCEPT !.consecutive_failures = @ + 1]
    IN  IF FundingTooManyFailures(failed.consecutive_failures)
        THEN FundingStop(failed, "max_failures")
        ELSE [failed EXCEPT
                 !.current_start = FundingAfterFailure(FundingCurrentEnd(f))]

\* Lines 555-595: one iteration of the loop, its call answered by answer.
FundingIteration(f, answer) ==
    IF FundingHasData(answer)
    THEN FundingPage(f, answer.timestamps)
    ELSE FundingNothing(f)

\* Both functions are called with the same range, _get_batched_data with the
\* step of _get_batched_funding_rate.
FundingInit ==
    /\ start_date \in 0..MaxStart
    /\ end_date \in 0..MaxEnd
    /\ time_delta \in 1..MaxStep
    /\ period = ""
    /\ EngineInit
    /\ source = {}
    /\ inclusive = TRUE
    /\ limit = 1
    /\ phase = "single"
    /\ whole = Unset
    /\ first_half = Unset
    /\ clean = TRUE
    /\ remerged = Unset
    /\ NoAggregate
    /\ funding = FundingStart
    /\ transport = <<>>

\* _get_batched_funding_rate has seen every answer _get_batched_data has,
\* or has returned.
CaughtUp == funding.batch_num = batch_num \/ funding.pc = "done"

\* _get_batched_data makes its next call and is given a page.
GenericFetchPage == CaughtUp /\ \E answer \in Answers : FetchPage(answer)

\* _get_batched_data makes its next call and is given nothing.
GenericFetchNothing == CaughtUp /\ \E answer \in Answers : FetchNothing(answer)

\* _get_batched_funding_rate makes its next call and is given the answer
\* _get_batched_data was given to the call of the same number (df).
FundingFetch ==
    /\ funding.pc = "loop"
    /\ funding.current_start < end_date
    /\ funding.batch_num < batch_num
    /\ funding' = FundingIteration(funding, df)
    /\ UNCHANGED <<request, engine, upstream, phase, whole, first_half,
                   clean, remerged, aggregate, transport>>

\* The while condition of _get_batched_funding_rate is false (line 555).
FundingLoopExit ==
    /\ funding.pc = "loop"
    /\ ~(funding.current_start < end_date)
    /\ funding' = FundingStop(funding, "reached_end")
    /\ UNCHANGED <<request, engine, upstream, phase, whole, first_half,
                   clean, remerged, aggregate, transport>>

FundingNext ==
    \/ GenericFetchPage
    \/ GenericFetchNothing
    \/ LoopExit
    \/ FundingFetch
    \/ FundingLoopExit

FundingSpec == FundingInit /\ [][FundingNext]_vars

\* ---- the steps of period_map, time in minutes ----

MaxMinute == 5    \* start_date ranges over the minutes 0..MaxMinute
MaxWindows == 2   \* the range is at most MaxWindows steps long

\* lines 455-465, in minutes
period_map ==
    [p \in {"5m", "15m", "30m", "1h", "2h", "4h", "6h", "12h", "1d"} |->
        CASE p = "5m"  -> 2500
          [] p = "15m" -> 7500
          [] p = "30m" -> 15000
          [] p = "1h"  -> 500 * 60
          [] p = "2h"  -> 1000 * 60
          [] p = "4h"  -> 2000 * 60
          [] p = "6h"  -> 3000 * 60
          [] p = "12h" -> 6000 * 60
          [] p = "1d"  -> 500 * 24 * 60]

\* periods the adapters pass on that period_map does not hold
OtherPeriods == {"3m"}

\* line 467: period_map.get(period, timedelta(hours=500))
TimeDelta(p) == IF p \in DOMAIN period_map THEN period_map[p] ELSE 500 * 60

\* line 483: limit=500
PageLimit == 500

\* The minutes between two samples of a series of period p (the upstream's
\* reading of the period parameter, lines 127, 173, 219, 265, 304).
Interval(p) ==
    CASE p = "3m"  -> 3
      [] p = "5m"  -> 5
      [] p = "15m" -> 15
      [] p = "30m" -> 30
      [] p = "1h"  -> 60
      [] p = "2h"  -> 2 * 60
      [] p = "4h"  -> 4 * 60
      [] p = "6h"  -> 6 * 60
      [] p = "12h" -> 12 * 60
      [] p = "1d"  -> 24 * 60

\* The number of sample instants (the multiples of the interval) from
\* start_time to end_time, end_time among them when the upstream takes it as
\* inclusive.
SampleInstants(start_time, end_time) ==
    LET last == IF inclusive THEN end_time ELSE end_time - 1
    IN  (last \div Interval(period)) - ((start_time - 1) \div Interval(period))

\* The newest sample instant the upstream holds for the window, the last row
\* of its page whether the page is cut at the limit or not.
NewestSample(start_time, end_time) ==
    LET last == IF inclusive THEN end_time ELSE end_time - 1
        held == SampleInstants(start_time, end_time)
        first == last - (last % Interval(period))
                      - (held - 1) * Interval(period)
    IN  first + (Min(held, limit) - 1) * Interval(period)

\* _get_batched_data is called with a period; the range starts within the
\* first minutes and is some steps long.
PeriodInit ==
    /\ period \in DOMAIN period_map \cup OtherPeriods
    /\ time_delta = TimeDelta(period)
    /\ start_date \in 0..MaxMinute
    /\ end_date \in {start_date + n * time_delta : n \in 1..MaxWindows}
    /\ EngineInit
    /\ source = {}
    /\ inclusive \in BOOLEAN
    /\ limit = PageLimit
    /\ ScenarioInit
    /\ NoAggregate

\* The upstream holds samples in the window: the page, of which the model
\* keeps the last row.
PeriodFetchPage ==
    /\ pc = "loop"
    /\ SampleInstants(current_start, CurrentEnd) > 0
    /\ FetchPage(Frame(<<NewestSample(current_start, CurrentEnd)>>))

PeriodNext ==
    \/ PeriodFetchPage
    \/ \E answer \in Answers : FetchNothing(answer)
    \/ LoopExit

PeriodSpec == PeriodInit /\ [][PeriodNext]_vars

\* ---- _make_request and the session under one adapter ----

MaxCalls == 2   \* the range is 1..MaxCalls steps long

\* line 48: max_retries=3
max_retries == 3

\* line 36: Retry(total=5)
total == 5

\* line 38: the statuses the session sends again by itself
status_forcelist == {"429", "500", "502", "503", "504"}

\* What one HTTP request of the session can come to: a status (with a JSON
\* body), a 200 whose body is not JSON, a timeout, a TLS failure.
Outcomes == {"200", "malformed", "404", "429", "503", "timeout", "ssl"}

\* _make_request has not been called yet.
TransportIdle ==
    [pc |-> "idle", request_no |-> 0, attempt |-> 0, retries |-> 0,
     sends |-> 0, slept |-> <<>>, seen |-> {}, outcome |-> "",
     branch |-> "", returned |-> ""]

\* The wait is the number of the next attempt.
WaitTimeOne(attempt) == attempt + 1

\* lines 73, 83, 93: wait_time = (attempt + 1) * 2
WaitTime(attempt) == (attempt + 1) * 2

\* lines 72, 82, 92: not (attempt < max_retries - 1)
LastAttempt(attempt) == ~(attempt < max_retries - 1)

\* The session has sent one more request, which came to outcome o.
Sent(t, o) ==
    [t EXCEPT !.sends = @ + 1, !.outcome = o, !.seen = @ \cup {o}]

\* Lines 67-68: raise_for_status() passes and response.json() is returned.
Return(t) == [t EXCEPT !.pc = "returned", !.returned = "json"]

\* One of the except branches (lines 70-79, 81-89, 91-99), b: sleep and go
\* to the next attempt, which is a new session.get, or return None after
\* the last.
Except(t, b) ==
    IF LastAttempt(t.attempt)
    THEN [t EXCEPT !.branch = b, !.pc = "returned", !.returned = "None"]
    ELSE [t EXCEPT !.branch = b,
                   !.slept = Append(@, WaitTime(t.attempt)),
                   !.attempt = @ + 1,
                   !.retries = 0]

\* The session sends the request again by itself (Retry, lines 35-40).
SessionRetry(t) == [t EXCEPT !.retries = @ + 1]

\* The session has retries left.
CanRetry(t) == t.retries < total

\* One fetch through one adapter (get_open_interest_hist); the upstream
\* holds one record at the start of every window.
TransportInit ==
    /\ start_date = 0
    /\ end_date \in 1..MaxCalls
    /\ time_delta = 1
    /\ period = ""
    /\ EngineInit
    /\ source = {}
    /\ inclusive = TRUE
    /\ limit = 1
    /\ phase = "single"
    /\ whole = Unset
    /\ first_half = Unset
    /\ clean = TRUE
    /\ remerged = Unset
    /\ funding = <<>>
    /\ NoAggregate
    /\ transport = TransportIdle

\* What is left alone by a step inside _make_request.
NotTransport ==
    <<request, engine, upstream, phase, whole, first_half, clean, remerged,
      aggregate, funding>>

\* The loop calls the adapter (line 479), which calls _make_request (line
\* 138): the first attempt begins (lines 60-62).
MakeRequest ==
    /\ pc = "loop"
    /\ current_start < end_date
    /\ transport.pc \in {"idle", "returned"}
    /\ transport.request_no = batch_num
    /\ transport' = [TransportIdle EXCEPT !.pc = "get",
                                          !.request_no = batch_num + 1]
    /\ UNCHANGED NotTransport

\* The request is answered with 200 and a JSON body (lines 62-68).
SendOk ==
    /\ transport.pc = "get"
    /\ transport' = Return(Sent(transport, "200"))
    /\ UNCHANGED NotTransport

\* The request is answered with a status that is not 2xx: the session sends
\* it again when the status is in status_forcelist and raises RetryError
\* when its retries are used up; any other status comes back as a response,
\* and raise_for_status() raises HTTPError (line 67). Both are
\* RequestExceptions (line 91).
SendStatus(o) ==
    /\ transport.pc = "get"
    /\ o \notin {"200", "malformed", "timeout", "ssl"}
    /\ transport' =
           IF o \in status_forcelist /\ CanRetry(transport)
           THEN SessionRetry(Sent(transport, o))
           ELSE Except(Sent(transport, o), "RequestException")
    /\ UNCHANGED NotTransport

\* The request times out or the TLS handshake fails: the session sends it
\* again while it has retries left, or session.get raises (lines 70, 81);
\* which of the two is the library's choice.
SendError(o) ==
    /\ transport.pc = "get"
    /\ o \in {"timeout", "ssl"}
    /\ \/ /\ CanRetry(transport)
          /\ transport' = SessionRetry(Sent(transport, o))
       \/ transport' = Except(Sent(transport, o),
                              IF o = "ssl" THEN "SSLError" ELSE "Timeout")
    /\ UNCHANGED NotTransport

\* The request is answered with 200 and a body that is not JSON:
\* response.json() raises (line 68). The exception is a RequestException in
\* the versions of requests that define requests.JSONDecodeError, and a
\* plain ValueError before them, which no branch catches: it leaves
\* _make_request, the adapter and the loop.
SendMalformed ==
    /\ transport.pc = "get"
    /\ \/ /\ transport' = Except(Sent(transport, "malformed"),
                                 "RequestException")
          /\ UNCHANGED NotTransport
       \/ /\ transport' = [Sent(transport, "malformed") EXCEPT !.pc = "raised"]
          /\ pc' = "raised"
          /\ batch_num' = batch_num + 1
          /\ df' = Raises
          /\ calls' = Append(calls, [start_time |-> current_start,
                                     end_time |-> CurrentEnd,
                                     kind |-> "raise"])
          /\ UNCHANGED <<current_start, last_timestamp, consecutive_failures,
                         all_data, reason, result, sleeps>>
          /\ UNCHANGED <<request, upstream, phase, whole, first_half, clean,
                         remerged, aggregate, funding>>

\* What get_open_interest_hist makes of what _make_request returned
\* (lines 138-147).
TransportAnswer ==
    AdapterAnswer("open_interest",
                  IF transport.returned = "None" THEN "failed" ELSE "records")

\* _make_request has returned to the call the loop is about to process.
RequestReturned ==
    transport.pc = "returned" /\ transport.request_no = batch_num + 1

TransportFetchPage == RequestReturned /\ FetchPage(TransportAnswer)

TransportFetchNothing == RequestReturned /\ FetchNothing(TransportAnswer)

TransportNext ==
    \/ MakeRequest
    \/ SendOk
    \/ \E o \in Outcomes : SendStatus(o)
    \/ \E o \in Outcomes : SendError(o)
    \/ SendMalformed
    \/ TransportFetchPage
    \/ TransportFetchNothing
    \/ LoopExit

TransportSpec == TransportInit /\ [][TransportNext]_vars

\* ---- the function runs on until it returns ----

\* An iteration can be taken exactly while the function has not returned.
EnabledUntilStopped == (ENABLED <<Next>>_vars) <=> pc # "done"

\* Weak fairness of Next. WF_vars(Next) is
\*     []<>~(ENABLED <<Next>>_vars) \/ []<><<Next>>_vars
\* and ENABLED <<Next>>_vars is pc # "done" (EnabledUntilStopped, an
\* invariant of Spec): the interpreter executes the next iteration, the
\* adapter call is bounded by the timeout of requests.get and the sleep by
\* its 2 s.
Progress == []<>(pc = "done") \/ []<><<Next>>_vars

FairSpec == Spec /\ Progress

\* ---- properties of one fetch ----

Stopped == pc = "done"
Reasons == {"reached_end", "stalled", "max_failures"}
Timestamps(rows) == {rows[i].timestamp : i \in 1..Len(rows)}
NoData(n) == calls[n].kind # "page"
RowTimestamps(rows) == [i \in 1..Len(rows) |-> rows[i].timestamp]

\* C1: for every adapter behaviour and every request range the fetch
\* eventually stops, with a reason among reached_end, stalled and
\* max_failures, and makes no adapter call after it stopped. It cannot loop
\* forever: the accepted pages have strictly increasing last timestamps (so
\* there are at most last_timestamp + 1 of them) and at most
\* max_consecutive_failures calls are made per accepted page, plus as many
\* at the end.
C1_Terminates ==
    /\ <>Stopped
    /\ [](Stopped => reason \in Reasons)
    /\ [](~Stopped => reason = "")
    /\ [](Len(all_data) <= last_timestamp + 1)
    /\ [](batch_num <= max_consecutive_failures * (Len(all_data) + 1))
    /\ [][Stopped => calls' = calls /\ Stopped']_vars

\* A fetch that took four calls and stopped on a stall.
C1_Witness == Stopped /\ reason = "stalled" /\ batch_num >= 4

\* Every call so far returned None (or an empty DataFrame, which line 486
\* does not tell from None).
AllNone == \A n \in 1..Len(calls) : calls[n].kind = "nothing"

\* C2 as stated: with None for every call the fetch stops after exactly 3
\* calls with no data.
C2_ExactlyThreeCalls ==
    (Stopped /\ start_date < end_date /\ AllNone)
        => (batch_num = 3 /\ result = NoResult)

\* C2, amended: with None for every call the fetch stops with no data after
\* at most 3 calls; after exactly 3, for reason max_failures, when the range
\* is longer than 2 * (time_delta + 1 ms), and by the loop condition after
\* fewer calls when it is shorter.
C2_AtMostThreeCalls ==
    (Stopped /\ AllNone)
        => /\ result = NoResult
           /\ batch_num <= 3
           /\ batch_num = 3 <=> end_date - start_date > 2 * (time_delta + 1)
           /\ batch_num = 3 <=> reason = "max_failures"

\* Three calls, all None, on a range long enough.
C2_Witness ==
    /\ Stopped /\ AllNone /\ df = None
    /\ batch_num = 3 /\ reason = "max_failures"

RECURSIVE MaxOf(_)
MaxOf(S) ==
    LET x == CHOOSE y \in S : TRUE
    IN  IF S = {x} THEN x
        ELSE LET m == MaxOf(S \ {x}) IN IF x > m THEN x ELSE m

\* The maximum timestamp of a page.
PageMax(answer) ==
    MaxOf({answer.timestamps[i] : i \in 1..Len(answer.timestamps)})

C4_ForwardAfterFailure ==
    \A n \in 1..(Len(calls) - 1) :
        NoData(n) =>
            /\ calls[n + 1].start_time = calls[n].end_time + 1
            /\ calls[n + 1].start_time > calls[n].end_time
            /\ <<calls[n + 1].start_time, calls[n + 1].end_time>>
                   # <<calls[n].start_time, calls[n].end_time>>

\* Two calls without data followed by a third call.
C4_Witness == Len(calls) >= 3 /\ NoData(1) /\ NoData(2)

\* C5: the rows of a returned result are in strictly ascending timestamp
\* order.
C5_StrictlyAscending ==
    result.kind = "DataFrame" =>
        \A i, j \in 1..Len(result.rows) :
            i < j => result.rows[i].timestamp < result.rows[j].timestamp

\* A result of two rows made from pages that overlap and are not sorted.
C5_Witness ==
    /\ result.kind = "DataFrame" /\ Len(result.rows) = 2
    /\ Len(all_data) = 2 /\ Len(all_data[1]) = 2
    /\ all_data[1][1].timestamp > all_data[1][2].timestamp
    /\ all_data[2][1].timestamp = all_data[1][2].timestamp

\* C6 as stated: the cursor never decreases.
C6_CursorNeverDecreases == [][current_start' >= current_start]_vars

\* C7 as stated: against an upstream that answers every window with its
\* records in the window, the result of a fetch holds every record of the
\* upstream in [start_date, end_date).
C7_CoversRange ==
    Stopped =>
        \A t \in source :
            (start_date <= t /\ t < end_date) => t \in Timestamps(result.rows)

\* C8: whatever the stop reason, the timestamps of the returned result are
\* those of the accepted pages, and the result is None exactly when no page
\* was accepted.
C8_ReturnsAccumulated ==
    Stopped =>
        /\ reason \in Reasons
        /\ Timestamps(result.rows) = Timestamps(Concat(all_data))
        /\ result = NoResult <=> all_data = <<>>
        /\ result.kind = "DataFrame" <=> all_data # <<>>

\* Pages were accepted, with a timestamp that occurs twice, and the fetch
\* then stopped on three calls without data.
C8_Witness ==
    /\ Stopped /\ reason = "max_failures"
    /\ Len(Concat(all_data)) > Cardinality(Timestamps(Concat(all_data)))

\* The timestamps of seq that lie in the range of the three fetches,
\* [T0, T0 + 10 * time_delta), read once the second half is being fetched.
InWholeRange(seq) ==
    SelectSeq(seq, LAMBDA t : end_date - 10 * time_delta <= t /\ t < end_date)

\* The fetches of the two halves, merged: concatenated, deduplicated, sorted.
HalvesMerged == Merge(<<first_half.rows, result.rows>>)

C10_MergeIdempotent == phase = "remerged" => remerged = result

\* Pages out of order, with a timestamp that two of them share, merged twice.
C10_Witness ==
    /\ phase = "remerged"
    /\ Len(all_data) = 2
    /\ RowTimestamps(all_data[1]) = <<1, 0>>
    /\ RowTimestamps(all_data[2]) = <<1>>
    /\ RowTimestamps(remerged.rows) = <<0, 1>>

\* C11 as stated: with a stub that answers every call with one record at the
\* start of the requested window, a request of three steps returns exactly 3
\* records, one at the start of each step.
C11_ThreeRecords ==
    Stopped =>
        RowTimestamps(result.rows)
            = <<start_date, start_date + time_delta,
                start_date + 2 * time_delta>>

\* C11, amended: the cursor moves to 1 ms after the record, that is 1 ms
\* after the start of the window, so the engine makes one call per
\* millisecond of the range, returns one record at every millisecond of
\* [start_date, end_date) and stops when the cursor reaches end_date.
C11_OneRecordPerInstant ==
    Stopped =>
        /\ batch_num = 3 * time_delta
        /\ RowTimestamps(result.rows)
               = [i \in 1..(3 * time_delta) |-> start_date + i - 1]
        /\ \A n \in 1..Len(calls) : calls[n].start_time = start_date + n - 1
        /\ reason = "reached_end"
        /\ current_start = end_date

\* A request of three steps of 2 ms has returned, with 6 records.
C11_Witness ==
    /\ Stopped /\ time_delta = 2 /\ end_date = start_date + 6
    /\ batch_num = 6 /\ Len(result.rows) = 6
    /\ df = Frame(<<end_date - 1>>)

\* The answers of the calls so far, in order: "page" or "nothing".
CallKinds == [n \in 1..Len(calls) |-> calls[n].kind]

NothingPageNothingTwice == <<"nothing", "page", "nothing", "nothing">>

\* C12: when the calls yield None, data, None, None, None, the fetch stops
\* right after the 5th call, for reason max_failures, and no 6th call is
\* made; after the 4th call the count of failures is 2 (the None of call 1
\* was wiped out by the page) and the fetch has not given up.
C12_StopsAfterThirdNone ==
    /\ CallKinds = NothingPageNothingTwice
           => /\ consecutive_failures = 2
              /\ Len(all_data) = 1
              /\ Stopped => reason = "reached_end"
    /\ CallKinds = Append(NothingPageNothingTwice, "nothing")
           => /\ Stopped /\ reason = "max_failures"
              /\ batch_num = 5
              /\ result = Returned(all_data) /\ Len(all_data) = 1
    /\ Len(calls) > 5
           => SubSeq(CallKinds, 1, 5)
                  # Append(NothingPageNothingTwice, "nothing")

\* None, a page, and three times None: the fetch has stopped with the page.
C12_Witness ==
    /\ CallKinds = Append(NothingPageNothingTwice, "nothing")
    /\ df = None /\ Stopped /\ reason = "max_failures"
    /\ result.kind = "DataFrame"

\* C13 as stated: after any call that returned a non-empty page,
\* consecutive_failures is 0.
C13_ResetOnEveryPage ==
    [][(batch_num' = batch_num + 1 /\ HasData(df'))
           => consecutive_failures' = 0]_vars

\* C13, amended: an accepted page resets consecutive_failures to 0; a page
\* that is refused as a stall stops the fetch and leaves the count as it
\* was.
C13_ResetOnAcceptedPage ==
    [][(batch_num' = batch_num + 1 /\ HasData(df'))
           => IF all_data' # all_data
              THEN consecutive_failures' = 0
              ELSE /\ consecutive_failures' = consecutive_failures
                   /\ Stopped' /\ reason' = "stalled"]_vars

\* A page was accepted right after two calls without data, and the count is
\* back to 0.
C13_Witness ==
    /\ Len(calls) >= 3
    /\ calls[Len(calls) - 2].kind = "nothing"
    /\ calls[Len(calls) - 1].kind = "nothing"
    /\ calls[Len(calls)].kind = "page"
    /\ Len(all_data) >= 1 /\ df = Frame(RowTimestamps(all_data[Len(all_data)]))
    /\ consecutive_failures = 0

\* ---- properties of get_all_comprehensive_data and main() ----

\* The seven series, in the order of the claims.
SevenSeries ==
    <<"open_interest", "top_account_ratio", "top_position_ratio",
      "global_ratio", "basis", "klines", "funding_rate">>

\* get_all_comprehensive_data has returned its dict.
DictReturned == main_pc \in {"returned", "exported", "no_file", "refused"}

\* C14: whenever the fetch of a series has returned, with data or with None,
\* get_all_comprehensive_data goes on (to the next series, or to its
\* return); no combination of payloads without a malformed one ends main()
\* in its except branch; and the dict returned has exactly the seven names,
\* each with a DataFrame (the series got records) or None (it got nothing).
C14_AbsentSeriesDoNotAbort ==
    /\ (main_pc = "fetching" /\ pc = "done")
           => ENABLED <<NextSeries \/ ReturnAll>>_vars
    /\ (\A i \in 1..7 : payload[i] # "bad_field") => main_pc # "crashed"
    /\ DictReturned =>
           /\ DOMAIN data_dict = {SevenSeries[i] : i \in 1..7}
           /\ \A i \in 1..7 :
                  /\ payload[i] = "records"
                         => data_dict[SevenSeries[i]].kind = "DataFrame"
                  /\ payload[i] = "failed"
                         => data_dict[SevenSeries[i]] = NoResult

\* The dict was returned with series that are absent (the first among them)
\* and series that are present (the last among them).
C14_Witness ==
    /\ DictReturned
    /\ data_dict["open_interest"] = NoResult
    /\ data_dict["top_account_ratio"].kind = "DataFrame"
    /\ data_dict["basis"] = NoResult
    /\ data_dict["funding_rate"].kind = "DataFrame"

\* C15 as stated: when an adapter raises in the fetch of a series,
\* get_all_comprehensive_data is still running and goes on to the next
\* series (or to its return).
C15_ExceptionStaysInSeries ==
    pc = "raised" =>
        /\ main_pc = "fetching"
        /\ ENABLED <<NextSeries \/ ReturnAll>>_vars

\* C16: every adapter call belongs to the series being fetched, and is made
\* when all the series before it, in the fixed order, have returned and
\* their results are stored; get_all_comprehensive_data moves on by one
\* series at a time and only when the fetch of the current series has
\* stopped.
C16_SeriesInSequence ==
    [][/\ batch_num' = batch_num + 1
              => /\ series' = series
                 /\ series \in 1..7
                 /\ main_pc = "fetching"
                 /\ DOMAIN data_dict
                        = {SevenSeries[i] : i \in 1..(series - 1)}
       /\ series' # series
              => /\ series' = series + 1
                 /\ Stopped /\ reason \in Reasons
                 /\ DOMAIN data_dict'
                        = {SevenSeries[i] : i \in 1..series}
                 /\ batch_num' = 0 /\ pc' = "loop"]_vars

\* The first call of the second series has been made; the first series,
\* which took two calls, has returned and is in the dict.
C16_Witness ==
    /\ series = 2 /\ batch_num = 1 /\ pc = "loop"
    /\ DOMAIN data_dict = {"open_interest"}
    /\ Len(data_dict["open_interest"].rows) = 2

\* C17 as stated: for a payload that is a final failure of the transport,
\* empty, not a list, of the wrong shape or with a malformed field, the
\* adapter returns None, does not raise, and the call counts as one call
\* without data.
C17_AdaptersNeverRaise ==
    (batch_num >= 1 /\ payload[series] # "records")
        => /\ pc # "raised"
           /\ df = None
           /\ calls[Len(calls)].kind = "nothing"
           /\ consecutive_failures = batch_num

\* C18: main() calls export_to_excel exactly when a series of the returned
\* dict is present, the call writes the file, and main() refuses exactly
\* when all seven series are absent.
C18_ExportIffAnyPresent ==
    LET present == {i \in 1..7 : data_dict[SevenSeries[i]] # NoResult}
    IN  /\ main_pc = "returned"
               => /\ (ENABLED <<Export>>_vars) <=> present # {}
                  /\ (ENABLED <<Refuse>>_vars) <=> present = {}
        /\ main_pc = "exported" => present # {}
        /\ main_pc = "refused" => present = {}
        /\ main_pc # "no_file"

\* The file was written from a dict in which the funding rate alone is
\* present.
C18_Witness ==
    /\ main_pc = "exported"
    /\ \A i \in 1..6 : data_dict[SevenSeries[i]] = NoResult
    /\ data_dict["funding_rate"].kind = "DataFrame"

\* C19 as stated: when a page is accepted, last_timestamp becomes the
\* maximum timestamp of the page and the cursor that maximum + 1 ms, whatever
\* the order of the page's rows.
C19_NewestIsMaximum ==
    [][(batch_num' = batch_num + 1 /\ HasData(df') /\ all_data' # all_data)
           => /\ last_timestamp' = PageMax(df')
              /\ current_start' = PageMax(df') + 1]_vars

\* C20: a non-empty page whose newest timestamp (its last row, and so also
\* its maximum) is not above last_timestamp stops the fetch for reason
\* stalled and is not added to all_data; the first non-empty page of a
\* fetch, with last_timestamp still None, is accepted.
C20_StallRefusesPage ==
    [][(pc = "loop" /\ batch_num' = batch_num + 1 /\ HasData(df'))
           => /\ (/\ last_timestamp # NoneT
                  /\ \/ LastTimestamp(df'.timestamps) <= last_timestamp
                     \/ PageMax(df') <= last_timestamp)
                     => /\ Stopped' /\ reason' = "stalled"
                        /\ all_data' = all_data
                        /\ last_timestamp' = last_timestamp
                        /\ result' = Returned(all_data)
              /\ last_timestamp = NoneT
                     => /\ reason' # "stalled"
                        /\ Len(all_data') = Len(all_data) + 1
                        /\ RowTimestamps(all_data'[Len(all_data')])
                               = df'.timestamps]_vars

\* One page was accepted, with last timestamp 1; the next page ended at 0 and
\* stopped the fetch, which returned the first page alone.
C20_Witness ==
    /\ Stopped /\ reason = "stalled"
    /\ Len(all_data) = 1 /\ last_timestamp = 1
    /\ HasData(df) /\ LastTimestamp(df.timestamps) = 0
    /\ Len(result.rows) = Cardinality(Timestamps(all_data[1]))

\* C21 as stated: a page whose newest (maximum) timestamp is above
\* last_timestamp is accepted, whatever its other rows, and the result holds
\* every timestamp once.
C21_LenientStallCheck ==
    [][(/\ pc = "loop" /\ batch_num' = batch_num + 1 /\ HasData(df')
        /\ last_timestamp # NoneT /\ PageMax(df') > last_timestamp)
           => /\ reason' # "stalled"
              /\ Len(all_data') = Len(all_data) + 1
              /\ RowTimestamps(all_data'[Len(all_data')]) = df'.timestamps
              /\ Stopped' =>
                     Len(result'.rows)
                         = Cardinality(Timestamps(Concat(all_data')))]_vars

\* C22 as stated: every timestamp of a returned result lies in
\* [start_date, end_date).
C22_ResultInsideRange ==
    result.kind = "DataFrame" =>
        \A i \in 1..Len(result.rows) :
            /\ start_date <= result.rows[i].timestamp
            /\ result.rows[i].timestamp < end_date

\* The first place of the timestamp t in the concatenation of the accepted
\* pages.
FirstPlace(rows, t) ==
    CHOOSE i \in 1..Len(rows) :
        /\ rows[i].timestamp = t
        /\ \A j \in 1..(i - 1) : rows[j].timestamp # t

\* C23: for every timestamp of the accepted pages the result holds exactly
\* one row, and it is the first row with that timestamp in accumulation
\* order (the earliest accepted page, and the earliest row in it).
C23_KeepsFirstOccurrence ==
    Stopped =>
        LET rows == Concat(all_data)
        IN  \A t \in Timestamps(rows) :
                /\ Cardinality({i \in 1..Len(result.rows) :
                                    result.rows[i].timestamp = t}) = 1
                /\ \E i \in 1..Len(result.rows) :
                       result.rows[i] = rows[FirstPlace(rows, t)]

\* Two pages were accepted that both hold the timestamp 1, the first as its
\* first row, and the result has the row of the first page.
C23_Witness ==
    /\ Stopped /\ Len(all_data) = 2
    /\ all_data[1][1].timestamp = 1
    /\ 1 \in Timestamps(all_data[2])
    /\ \E i \in 1..Len(result.rows) : result.rows[i] = all_data[1][1]

\* C29: the last timestamps of the accepted pages are strictly increasing,
\* whatever lies between the pages, and last_timestamp is the last of them.
C29_LastSeenIncreases ==
    /\ \A i, j \in 1..Len(all_data) :
           i < j => all_data[i][Len(all_data[i])].timestamp
                        < all_data[j][Len(all_data[j])].timestamp
    /\ all_data # <<>> =>
           last_timestamp
               = all_data[Len(all_data)][Len(all_data[Len(all_data)])].timestamp
    /\ all_data = <<>> => last_timestamp = NoneT

\* A page ending at 0, a call without data, and a page ending at 1.
C29_Witness ==
    /\ CallKinds = <<"page", "nothing", "page">>
    /\ Len(all_data) = 2 /\ last_timestamp = 1
    /\ all_data[1][Len(all_data[1])].timestamp = 0

\* C30: on a range of at most one step, a first call without data is the
\* only call: the cursor is end_date + 1 ms, the loop condition ends the
\* fetch with consecutive_failures = 1, and the result is None.
C30_OneCallOnShortRange ==
    (/\ start_date < end_date /\ end_date - start_date <= time_delta
     /\ batch_num >= 1 /\ calls[1].kind = "nothing")
        => /\ batch_num = 1
           /\ calls[1].end_time = end_date
           /\ current_start = end_date + 1
           /\ consecutive_failures = 1
           /\ all_data = <<>>
           /\ Stopped => (reason = "reached_end" /\ result = NoResult)

\* The fetch of [1, 3) with a step of 2 has returned after one call, which
\* got None.
C30_Witness ==
    /\ Stopped /\ start_date = 1 /\ end_date = 3 /\ time_delta = 2
    /\ batch_num = 1 /\ df = None /\ result = NoResult

\* C24: the n-th call of a fetch is made after exactly n - 1 sleeps of the
\* fetch, so exactly one sleep lies between two consecutive calls, whatever
\* the earlier call returned; the iteration that leaves the loop does not
\* sleep.
C24_OneSleepBetweenCalls ==
    [][/\ batch_num' = batch_num + 1 => sleeps = batch_num
       /\ (batch_num' = batch_num + 1 /\ pc' = "loop")
              => sleeps' = sleeps + 1
       /\ Stopped' => sleeps' = sleeps]_vars

\* Three calls have been made, the first with data and the second without,
\* and two sleeps.
C24_Witness ==
    /\ Len(calls) = 3 /\ calls[1].kind = "page" /\ calls[2].kind = "nothing"
    /\ Stopped /\ sleeps = 2

\* The windows of the calls so far, in order.
Windows(log) == [i \in 1..Len(log) |-> <<log[i].start_time, log[i].end_time>>]

\* C25: given the same range, the step of 300 days and the same answers,
\* _get_batched_funding_rate requests the windows _get_batched_data requests,
\* makes another call exactly when _get_batched_data does, and when both have
\* returned they have stopped at the same call for the same reason with the
\* same result.
C25_FundingIsGenericEngine ==
    /\ funding.batch_num <= batch_num
    /\ Windows(funding.calls) = SubSeq(Windows(calls), 1, funding.batch_num)
    /\ funding.pc = "done"
           => /\ funding.batch_num = batch_num
              /\ pc = "done" \/ ~(current_start < end_date)
    /\ (pc = "done" /\ funding.pc = "loop" /\ funding.batch_num = batch_num)
           => ~(funding.current_start < end_date)
    /\ (pc = "done" /\ funding.pc = "done")
           => /\ funding.reason = reason
              /\ funding.result = result

\* Both functions have returned after three calls, a page, nothing and a
\* page that stalls.
C25_Witness ==
    /\ pc = "done" /\ funding.pc = "done"
    /\ funding.batch_num = 3 /\ funding.reason = "stalled"
    /\ CallKinds = <<"page", "nothing", "page">>
    /\ funding.result.kind = "DataFrame"

\* C26: the step of each of the nine periods is 500 sampling intervals, and
\* no window the fetch requests holds more sample instants than the page
\* limit of 500.
C26_WindowWithinLimit ==
    period \in DOMAIN period_map
        => /\ time_delta = 500 * Interval(period)
           /\ \A n \in 1..Len(calls) :
                  SampleInstants(calls[n].start_time, calls[n].end_time)
                      <= PageLimit

\* ---- properties of _make_request ----

\* The outcomes the transport is to take for Retryable.
Retryable == status_forcelist \cup {"timeout", "ssl"}

\* C27 as stated: a request whose every outcome was Retryable and that ended
\* in failure was attempted 5 times, with waits of 1, 2, 3 and 4 seconds
\* between the attempts.
C27_FiveAttemptsLinear ==
    (transport.returned = "None" /\ transport.seen \subseteq Retryable)
        => /\ transport.attempt + 1 = 5
           /\ transport.slept = <<1, 2, 3, 4>>

\* C27: _make_request makes at most 3 attempts (calls of session.get),
\* sleeps 2 * n seconds after the n-th failed attempt (2 s, then 4 s), and
\* returns None only when the third attempt has failed; within one attempt
\* the session sends the request up to 1 + 5 times. Nothing of this changes
\* the state of the fetch, which processes one answer per adapter call.
C27_ThreeAttemptsThenNone ==
    [][/\ transport'.attempt < max_retries
       /\ transport'.slept = [n \in 1..transport'.attempt |-> 2 * n]
       /\ transport'.retries <= total
       /\ transport'.sends <= max_retries * (1 + total)
       /\ transport'.returned = "None"
              => /\ transport'.attempt = max_retries - 1
                 /\ transport'.slept = <<2, 4>>
       /\ (transport' # transport /\ transport'.pc # "raised")
              => UNCHANGED engine
       /\ batch_num' # batch_num
              => /\ batch_num' = transport.request_no
                 /\ Len(calls') = batch_num'
                 /\ transport.pc = "returned"
                        => /\ transport' = transport
                           /\ calls'[batch_num'].kind = "nothing"
                                  <=> transport.returned = "None"]_vars

\* The first request of a fetch met 503 at every one of its 18 sends; the
\* fetch has processed the one failed call.
C27_Witness ==
    /\ transport.returned = "None" /\ transport.seen = {"503"}
    /\ transport.sends = 18 /\ transport.slept = <<2, 4>>
    /\ transport.request_no = 1 /\ batch_num = 1
    /\ calls[1].kind = "nothing"

\* C28: a request answered with a 4xx status other than 429, or with a
\* malformed body, is followed by no further attempt: _make_request returns
\* None at once.
C28_FatalNotRetried ==
    [][(/\ transport.pc = "get"
        /\ transport'.sends = transport.sends + 1
        /\ transport'.outcome \notin Retryable \cup {"200"})
           => /\ transport'.pc = "returned"
              /\ transport'.returned = "None"]_vars

====
